---- MODULE Spec2Model ----
(***************************************************************************)
(* State-machine model of src/sandwichBot.js.                              *)
(*                                                                         *)
(* main() checks the wallet balance, fetches the trending tokens once and  *)
(* registers one onLogs callback.  Every notification starts an            *)
(* independent run of the async callback; the runs of the callback are     *)
(* interleaved by the JavaScript event loop at their await points, so      *)
(* each run is a process whose pc names the await it is suspended on.      *)
(* One action is the code between two awaits of one run.                   *)
(***************************************************************************)
EXTENDS Integers, Sequences, FiniteSets

\* ---------------------------------------------------------------- bounds
\* Number of feed notifications delivered in one process run.
MaxEvents == 2

\* Number of feed notifications delivered in the runs checked for termination.
MaxFairEvents == 1

\* ------------------------------------------------------------- constants
\* checkWalletBalance: "if (balance < 1000000)".
MinBalance == 1000000

\* Asset identifiers the trend API may return.
Tokens == {"TOKENX", "TOKENY"}

\* Account identifiers that may appear in a transaction.
AccountIds == Tokens \cup {"OTHER"}

\* Balances getBalance may report (both sides of the threshold).
Balances == {0, 999999, 1000000}

\* Signatures the feed may announce.
Signatures == {"sigX", "sigY", "sigBad"}

Handlers == 1..MaxEvents

Legs == {"front", "back"}

\* The ledger behind getParsedTransaction: what a signature resolves to when
\* the lookup finds it.  sigBad resolves to a body without accountKeys.
Ledger(s) ==
  CASE s = "sigX" -> [hasAccountKeys |-> TRUE, accountKeys |-> {"TOKENX", "OTHER"}]
    [] s = "sigY" -> [hasAccountKeys |-> TRUE, accountKeys |-> {"TOKENY"}]
    [] OTHER      -> [hasAccountKeys |-> FALSE, accountKeys |-> {}]

\* Ranked token lists the trend API may return (distinct addresses).
TrendLists ==
  { <<>>, <<"TOKENX">>, <<"TOKENY">>,
    <<"TOKENX", "TOKENY">>, <<"TOKENY", "TOKENX">> }

VARIABLES
  mainPc,          \* position of main()
  balance,         \* last value returned by connection.getBalance, -1 before
  trendingTokens,  \* the list main() passes to scanMempool
  trendFetches,    \* number of axios.get calls made by getTrendingTokens
  subscribed,      \* connection.onLogs has been called
  handlers         \* one record per run of the onLogs callback

vars == <<mainPc, balance, trendingTokens, trendFetches, subscribed, handlers>>


\* --------------------------------------------------- the callback's state
NoCalls ==
  [build |-> 0, simulate |-> 0, blockhash |-> 0, sign |-> 0, send |-> 0, confirm |-> 0]

\* A run of the onLogs callback that has not been started yet.
IdleHandler ==
  [ pc          |-> "idle",       \* the await the run is suspended on
    run         |-> 0,            \* which invocation of the callback this is
    signature   |-> "none",       \* logs.signature
    lookups     |-> 0,            \* calls of getParsedTransaction
    resolved    |-> "none",       \* result of getParsedTransaction
    errors      |-> 0,            \* logger.error calls made by the run
    transaction |-> Ledger("none"),
    evaluations |-> 0,            \* calls of executeSandwichAttack
    leg         |-> "none",       \* the executeRaydiumSwap call in progress
    status      |-> [l \in Legs |-> "NotStarted"],
    calls       |-> [l \in Legs |-> NoCalls],
    target      |-> [l \in Legs |-> "none"],   \* tokenMintAddress of the leg
    simErr      |-> [l \in Legs |-> FALSE],    \* simulationResult.value.err
    failedAt    |-> [l \in Legs |-> "none"],
    \* the blockhash signed into the leg, named by the call that fetched it
    signedHash  |-> [l \in Legs |-> <<0, "none">>],
    outcome     |-> "none" ]

Terminal == {"Confirmed", "Failed", "TimedOut"}

\* --------------------------------------------------------- pure helpers
\* trendingTokens.includes(key)
includes(list, key) == \E i \in 1..Len(list) : list[i] = key

\* Variant: the membership test is dropped, any account counts as trending.
involvesAnyAccount(accountKeys, list) == accountKeys # {}

\* involvedAccounts.some(key => trendingTokens.includes(key.toBase58()))
involvesTrendingToken(accountKeys, list) ==
  \E key \in accountKeys : includes(list, key)

\* Variant: the threshold is written with one digit less.
InsufficientFundsLowThreshold(b) == b < MinBalance \div 10

\* checkWalletBalance: if (balance < 1000000) throw
InsufficientFunds(b) == b < MinBalance

\* executeRaydiumSwap(wallet, connection, 1000, trendingTokens[0]) is entered:
\* the builder runs up to "await getAssociatedTokenAddress".
StartLeg(r, l, list) ==
  [r EXCEPT !.leg = l,
            !.pc = "getAssociatedTokenAddress",
            !.status[l] = "Building",
            !.calls[l].build = @ + 1,
            !.target[l] = list[1]]

\* Variant: the catch of executeRaydiumSwap logs the error without rethrowing
\* it, so executeSandwichAttack continues after the failed leg.
LegThrowsSwallowed(r, step, st) ==
  LET f == [r EXCEPT !.status[r.leg] = st, !.failedAt[r.leg] = step] IN
  IF f.leg = "front"
  THEN StartLeg(f, "back", trendingTokens)
  ELSE [f EXCEPT !.pc = "done", !.outcome = "executed"]

\* Variant: a rejected sendRawTransaction starts the attempt over from the
\* blockhash fetch, without a bound on the number of attempts.
LegThrowsRetriesSend(r, step, st) ==
  IF step = "send"
  THEN [r EXCEPT !.pc = "getLatestBlockhash",
                 !.status[r.leg] = "Simulated",
                 !.signedHash[r.leg] = <<0, "none">>,
                 !.calls[r.leg].sign = 0,
                 !.calls[r.leg].send = 0]
  ELSE [r EXCEPT !.status[r.leg] = st,
                 !.failedAt[r.leg] = step,
                 !.errors = @ + (IF step = "build" THEN 2 ELSE 3),
                 !.pc = "done",
                 !.outcome = "error"]

\* An await of the current leg rejects (or sendTransaction throws): the error
\* passes the catch blocks of sendTransaction and executeRaydiumSwap, which
\* rethrow, and ends in the catch of executeSandwichAttack, which logs it and
\* returns.
LegThrows(r, step, st) ==
  [r EXCEPT !.status[r.leg] = st,
            !.failedAt[r.leg] = step,
            !.errors = @ + (IF step = "build" THEN 2 ELSE 3),
            !.pc = "done",
            !.outcome = "error"]

\* sendTransaction and executeRaydiumSwap return normally: after the front
\* leg executeSandwichAttack calls executeRaydiumSwap again, after the back
\* leg it logs "Sandwich attack executed" and returns.
LegReturns(r, list) ==
  IF r.leg = "front"
  THEN StartLeg(r, "back", list)
  ELSE [r EXCEPT !.pc = "done", !.outcome = "executed"]

\* Variant: the structure check is replaced by a default, a transaction
\* without accountKeys is read as one with an empty account list.
executeSandwichAttackUnchecked(r, list) ==
  LET e == [r EXCEPT !.evaluations = @ + 1] IN
  IF ~involvesTrendingToken(e.transaction.accountKeys, list)
  THEN [e EXCEPT !.pc = "done", !.outcome = "skipped"]
  ELSE StartLeg(e, "front", list)

\* executeSandwichAttack from its entry to its first await.
executeSandwichAttack(r, list) ==
  LET e == [r EXCEPT !.evaluations = @ + 1] IN
  IF ~e.transaction.hasAccountKeys
  THEN [e EXCEPT !.pc = "done", !.outcome = "invalid", !.errors = @ + 1]
  ELSE IF ~involvesTrendingToken(e.transaction.accountKeys, list)
  THEN [e EXCEPT !.pc = "done", !.outcome = "skipped"]
  ELSE StartLeg(e, "front", list)

\* getAssociatedTokenAddress resolved: the instruction and the Transaction are
\* built, sendTransaction sets the fee payer and calls simulateTransaction.
Built(r) ==
  [r EXCEPT !.status[r.leg] = "Built",
            !.calls[r.leg].simulate = @ + 1,
            !.pc = "simulateTransaction"]

\* simulationResult.value.err is null: getLatestBlockhash is called.
SimulationOk(r) ==
  [r EXCEPT !.status[r.leg] = "Simulated",
            !.calls[r.leg].blockhash = @ + 1,
            !.pc = "getLatestBlockhash"]

\* Variant: simulationResult.value.err is not checked.
SimulationErrIgnored(r) ==
  [r EXCEPT !.simErr[r.leg] = TRUE,
            !.status[r.leg] = "Simulated",
            !.calls[r.leg].blockhash = @ + 1,
            !.pc = "getLatestBlockhash"]

\* simulationResult.value.err is set: sendTransaction throws.
SimulationErr(r) ==
  LegThrows([r EXCEPT !.simErr[r.leg] = TRUE], "simulate", "Failed")

\* Variant: the blockhash is kept from the first fetch of the run and signed
\* into every later leg.
SignedCachedBlockhash(r) ==
  [r EXCEPT !.status[r.leg] = "Signed",
            !.signedHash[r.leg] = <<r.run, "front">>,
            !.calls[r.leg].sign = @ + 1,
            !.calls[r.leg].send = @ + 1,
            !.pc = "sendRawTransaction"]

\* getLatestBlockhash resolved: the blockhash is attached, the transaction is
\* signed and serialized, sendRawTransaction is called.
Signed(r) ==
  [r EXCEPT !.status[r.leg] = "Signed",
            !.signedHash[r.leg] = <<r.run, r.leg>>,
            !.calls[r.leg].sign = @ + 1,
            !.calls[r.leg].send = @ + 1,
            !.pc = "sendRawTransaction"]

\* Variant: confirmTransaction is called without await, so sendTransaction
\* returns while the leg is still unconfirmed.
SubmittedNotAwaited(r) ==
  LegReturns([r EXCEPT !.status[r.leg] = "Submitted",
                       !.calls[r.leg].confirm = @ + 1],
             trendingTokens)

\* sendRawTransaction resolved with a signature: confirmTransaction is called.
Submitted(r) ==
  [r EXCEPT !.status[r.leg] = "Submitted",
            !.calls[r.leg].confirm = @ + 1,
            !.pc = "confirmTransaction"]

\* confirmTransaction resolved; its result is discarded by "await
\* connection.confirmTransaction(signature, 'confirmed');", so a result whose
\* value.err is set (the transaction failed on the ledger) returns normally
\* like a success.
Confirmed(r, err, list) ==
  LegReturns([r EXCEPT !.status[r.leg] = IF err THEN "Failed" ELSE "Confirmed",
                       !.failedAt[r.leg] = IF err THEN "confirm" ELSE "none"],
             list)

\* ------------------------------------------------------------------ main
Init ==
  /\ mainPc = "checkWalletBalance"
  /\ balance = -1
  /\ trendingTokens = <<>>
  /\ trendFetches = 0
  /\ subscribed = FALSE
  /\ handlers = [h \in Handlers |-> IdleHandler]

\* await checkWalletBalance(): getBalance resolves with b.
checkWalletBalance ==
  /\ mainPc = "checkWalletBalance"
  /\ \E b \in Balances :
       /\ balance' = b
       /\ mainPc' = IF InsufficientFunds(b) THEN "failed" ELSE "getTrendingTokens"
  /\ UNCHANGED <<trendingTokens, trendFetches, subscribed, handlers>>

\* await checkWalletBalance(): getBalance rejects; the error is rethrown.
checkWalletBalanceRejected ==
  /\ mainPc = "checkWalletBalance"
  /\ mainPc' = "failed"
  /\ UNCHANGED <<balance, trendingTokens, trendFetches, subscribed, handlers>>

\* await getTrendingTokens(): the request returns a token list.
getTrendingTokens ==
  /\ mainPc = "getTrendingTokens"
  /\ trendFetches' = trendFetches + 1
  /\ \E list \in TrendLists : trendingTokens' = list
  /\ mainPc' = "scanMempool"
  /\ UNCHANGED <<balance, subscribed, handlers>>

\* await getTrendingTokens(): the request fails or has an unexpected shape.
getTrendingTokensRejected ==
  /\ mainPc = "getTrendingTokens"
  /\ trendFetches' = trendFetches + 1
  /\ mainPc' = "failed"
  /\ UNCHANGED <<balance, trendingTokens, subscribed, handlers>>

\* Variant: the empty-list guard is missing.
scanMempoolUnguarded ==
  /\ mainPc = "scanMempool"
  /\ subscribed' = TRUE
  /\ mainPc' = "returned"
  /\ UNCHANGED <<balance, trendingTokens, trendFetches, handlers>>

\* scanMempool(trendingTokens)
scanMempool ==
  /\ mainPc = "scanMempool"
  /\ subscribed' = (Len(trendingTokens) # 0)
  /\ mainPc' = "returned"
  /\ UNCHANGED <<balance, trendingTokens, trendFetches, handlers>>

\* ------------------------------------------------------ the onLogs callback
\* Variant: an error of the run is not caught inside the callback; the
\* rejection leaves the event-loop iteration and ends the process.
StepErrorEscapes(h, r) ==
  /\ handlers' = [handlers EXCEPT ![h] = r]
  /\ subscribed' = (subscribed /\ r.errors = handlers[h].errors)
  /\ UNCHANGED <<mainPc, balance, trendingTokens, trendFetches>>

\* Variant: the asset of a leg is taken with trendingTokens.shift(), which
\* removes it from the shared list.
StepShiftsTrends(h, r) ==
  /\ handlers' = [handlers EXCEPT ![h] = r]
  /\ trendingTokens' =
       IF /\ r.calls["front"].build + r.calls["back"].build
               > handlers[h].calls["front"].build + handlers[h].calls["back"].build
          /\ Len(trendingTokens) > 1
       THEN Tail(trendingTokens)
       ELSE trendingTokens
  /\ UNCHANGED <<mainPc, balance, trendFetches, subscribed>>

\* One step of run h of the callback: only the run's own state changes.
Step(h, r) ==
  /\ handlers' = [handlers EXCEPT ![h] = r]
  /\ UNCHANGED <<mainPc, balance, trendingTokens, trendFetches, subscribed>>

At(h, where) == handlers[h].pc = where

\* A notification arrives: the callback reads logs.signature and calls
\* getParsedTransaction.
onLogs(h) ==
  /\ subscribed
  /\ At(h, "idle")
  /\ \A k \in Handlers : k < h => ~At(k, "idle")
  /\ \E s \in Signatures :
       Step(h, [handlers[h] EXCEPT !.run = h, !.signature = s, !.lookups = @ + 1,
                                    !.pc = "getParsedTransaction"])

\* getParsedTransaction resolves with null: nothing is done.
getParsedTransactionNull(h) ==
  /\ At(h, "getParsedTransaction")
  /\ Step(h, [handlers[h] EXCEPT !.resolved = "null", !.pc = "done",
                                 !.outcome = "dropped"])

\* getParsedTransaction rejects: the callback's catch logs the error.
getParsedTransactionRejected(h) ==
  /\ At(h, "getParsedTransaction")
  /\ Step(h, [handlers[h] EXCEPT !.resolved = "threw", !.pc = "done",
                                 !.errors = @ + 1,
                                 !.outcome = "resolveError"])

\* getParsedTransaction resolves with the transaction: executeSandwichAttack.
getParsedTransactionFound(h) ==
  /\ At(h, "getParsedTransaction")
  /\ Step(h, executeSandwichAttack(
               [handlers[h] EXCEPT !.resolved = "found",
                                   !.transaction = Ledger(handlers[h].signature)],
               trendingTokens))

getAssociatedTokenAddressResolved(h) ==
  /\ At(h, "getAssociatedTokenAddress")
  /\ Step(h, Built(handlers[h]))

\* new PublicKey(tokenMintAddress) or the address derivation throws.
getAssociatedTokenAddressRejected(h) ==
  /\ At(h, "getAssociatedTokenAddress")
  /\ Step(h, LegThrows(handlers[h], "build", "Failed"))

simulateTransactionOk(h) ==
  /\ At(h, "simulateTransaction")
  /\ Step(h, SimulationOk(handlers[h]))

simulateTransactionErr(h) ==
  /\ At(h, "simulateTransaction")
  /\ Step(h, SimulationErr(handlers[h]))

getLatestBlockhashResolved(h) ==
  /\ At(h, "getLatestBlockhash")
  /\ Step(h, Signed(handlers[h]))

getLatestBlockhashRejected(h) ==
  /\ At(h, "getLatestBlockhash")
  /\ Step(h, LegThrows(handlers[h], "blockhash", "Failed"))

sendRawTransactionResolved(h) ==
  /\ At(h, "sendRawTransaction")
  /\ Step(h, Submitted(handlers[h]))

sendRawTransactionRejected(h) ==
  /\ At(h, "sendRawTransaction")
  /\ Step(h, LegThrows(handlers[h], "send", "Failed"))

\* confirmTransaction resolves, with value.err null or set.
confirmTransactionResolved(h) ==
  /\ At(h, "confirmTransaction")
  /\ \E err \in BOOLEAN : Step(h, Confirmed(handlers[h], err, trendingTokens))

\* confirmTransaction rejects: the confirmation timed out or the blockhash
\* expired.
confirmTransactionRejected(h) ==
  /\ At(h, "confirmTransaction")
  /\ Step(h, LegThrows(handlers[h], "confirm", "TimedOut"))

Next ==
  \/ checkWalletBalance
  \/ checkWalletBalanceRejected
  \/ getTrendingTokens
  \/ getTrendingTokensRejected
  \/ scanMempool
  \/ \E h \in Handlers :
       \/ onLogs(h)
       \/ getParsedTransactionNull(h)
       \/ getParsedTransactionRejected(h)
       \/ getParsedTransactionFound(h)
       \/ getAssociatedTokenAddressResolved(h)
       \/ getAssociatedTokenAddressRejected(h)
       \/ simulateTransactionOk(h)
       \/ simulateTransactionErr(h)
       \/ getLatestBlockhashResolved(h)
       \/ getLatestBlockhashRejected(h)
       \/ sendRawTransactionResolved(h)
       \/ sendRawTransactionRejected(h)
       \/ confirmTransactionResolved(h)
       \/ confirmTransactionRejected(h)

Spec == Init /\ [][Next]_vars

\* A ledger-client call or address derivation that run h awaits settles.
Respond(h) ==
  \/ getParsedTransactionNull(h)
  \/ getParsedTransactionRejected(h)
  \/ getParsedTransactionFound(h)
  \/ getAssociatedTokenAddressResolved(h)
  \/ getAssociatedTokenAddressRejected(h)
  \/ simulateTransactionOk(h)
  \/ simulateTransactionErr(h)
  \/ getLatestBlockhashResolved(h)
  \/ getLatestBlockhashRejected(h)
  \/ sendRawTransactionResolved(h)
  \/ sendRawTransactionRejected(h)
  \/ confirmTransactionResolved(h)
  \/ confirmTransactionRejected(h)

FairHandlers == Handlers \cap (1..MaxFairEvents)

FairNext ==
  \/ checkWalletBalance
  \/ checkWalletBalanceRejected
  \/ getTrendingTokens
  \/ getTrendingTokensRejected
  \/ scanMempool
  \/ \E h \in FairHandlers :
       \/ onLogs(h)
       \/ Respond(h)

\* Every awaited call eventually settles (with a result, an error or a
\* timeout), and the event loop then resumes the run that awaits it.
FairSpec ==
  Init /\ [][FairNext]_vars /\ \A h \in FairHandlers : WF_vars(Respond(h))


\* ================================================================ claims
Range(list) == {list[i] : i \in 1..Len(list)}

\* The run is between the start of its front leg and the end of its last leg.
InPipeline(r) == r.leg # "none" /\ r.pc # "done"

\* The run has a get-latest-blockhash, sign/send-raw or confirm step in flight.
InSignSubmit(r) ==
  r.pc \in {"getLatestBlockhash", "sendRawTransaction", "confirmTransaction"}

\* The leg made no call to the builder or to the ledger client.
NoLegIO(r) == \A l \in Legs : r.calls[l] = NoCalls

\* C1: while one run of the pipeline is in progress, no other run has a
\* get-latest-blockhash, sign, send-raw or confirm step in flight.
C1_SingleInFlight ==
  \A h1, h2 \in Handlers :
    (h1 # h2 /\ InPipeline(handlers[h1])) => ~InSignSubmit(handlers[h2])

\* C2: a back leg that has started any step (build, simulate, sign, submit)
\* belongs to a run whose front leg is in a terminal state.
C2_BackAfterFrontTerminal ==
  \A h \in Handlers :
    (handlers[h].status["back"] # "NotStarted" \/ handlers[h].calls["back"] # NoCalls)
      => handlers[h].status["front"] \in Terminal

C2_Witness ==
  \E h \in Handlers : handlers[h].status["back"] = "Submitted"

\* C3: a front leg that ended Failed or TimedOut means the builder was never
\* called for the back leg of that run.
C3_NoBackUnlessFrontConfirmed ==
  \A h \in Handlers :
    handlers[h].status["front"] \in {"Failed", "TimedOut"}
      => handlers[h].calls["back"].build = 0

\* C4: when the simulation of the front leg returned an error, the front leg
\* is Failed, the run has ended and the builder was never called for the back
\* leg.
C4_FrontSimulationErrorAborts ==
  \A h \in Handlers :
    handlers[h].simErr["front"]
      => /\ handlers[h].status["front"] = "Failed"
         /\ handlers[h].pc = "done"
         /\ handlers[h].calls["back"].build = 0

C4_Witness ==
  \E h \in Handlers :
    handlers[h].simErr["front"] /\ handlers[h].calls["front"].simulate = 1

\* C5: a leg whose simulation returned an error is never broadcast: it has no
\* send-raw call (and no blockhash fetch, signature or confirmation either).
C5_SimulationErrorNeverBroadcast ==
  \A h \in Handlers : \A l \in Legs :
    handlers[h].simErr[l]
      => /\ handlers[h].calls[l].send = 0
         /\ handlers[h].calls[l].sign = 0
         /\ handlers[h].calls[l].confirm = 0

C5_Witness ==
  \E h \in Handlers :
    handlers[h].simErr["back"] /\ handlers[h].status["front"] = "Confirmed"

\* The intersecting asset with the lowest trend-rank index.
FirstRankedMatch(accountKeys, list) ==
  list[CHOOSE i \in 1..Len(list) :
         /\ list[i] \in accountKeys
         /\ \A j \in 1..(i - 1) : list[j] \notin accountKeys]

\* C6: the asset every leg is built for is the asset of the transaction's
\* accounts that ranks first in the trend list.
C6_TargetIsFirstRankedMatch ==
  \A h \in Handlers : \A l \in Legs :
    handlers[h].calls[l].build > 0
      => handlers[h].target[l] =
           FirstRankedMatch(handlers[h].transaction.accountKeys, trendingTokens)

\* C7: an event whose resolved account list shares no asset with the trend
\* list yields no pipeline run and no builder, simulation, blockhash,
\* broadcast or confirmation call.
C7_NoMatchNoIO ==
  \A h \in Handlers :
    (/\ handlers[h].resolved = "found"
     /\ handlers[h].transaction.hasAccountKeys
     /\ handlers[h].transaction.accountKeys \cap Range(trendingTokens) = {})
      => /\ NoLegIO(handlers[h])
         /\ handlers[h].leg = "none"
         /\ handlers[h].outcome = "skipped"

C7_Witness ==
  \E h \in Handlers :
    /\ handlers[h].resolved = "found"
    /\ handlers[h].transaction.accountKeys # {}
    /\ handlers[h].transaction.accountKeys \cap Range(trendingTokens) = {}
    /\ handlers[h].pc = "done"

\* C8: the notifications that carry one signature lead to at most one
\* evaluation (call of executeSandwichAttack) between them.
C8_DuplicateEvaluatedOnce ==
  \A s \in Signatures :
    Cardinality({h \in Handlers :
                   handlers[h].signature = s /\ handlers[h].evaluations > 0}) <= 1

\* C9: once the balance check has read a balance below the threshold, main
\* has failed, no trend fetch was made, the subscription is not registered
\* and no run of the callback has done anything.
C9_InsufficientFundsAbortsStartup ==
  (balance # -1 /\ balance < MinBalance)
    => /\ mainPc = "failed"
       /\ trendFetches = 0
       /\ ~subscribed
       /\ \A h \in Handlers : handlers[h] = IdleHandler

C9_Witness == balance = 999999 /\ mainPc = "failed"

\* C10: a leg that failed because send-raw failed was retried at least once,
\* with a blockhash fetched for every send.
C10_SubmitFailureRetried ==
  \A h \in Handlers : \A l \in Legs :
    handlers[h].failedAt[l] = "send"
      => /\ handlers[h].calls[l].send >= 2
         /\ handlers[h].calls[l].blockhash = handlers[h].calls[l].send


\* The run ended after a confirmed front leg with a failed or timed-out back leg.
PartialExposure(r) ==
  /\ r.pc = "done"
  /\ r.status["front"] = "Confirmed"
  /\ r.status["back"] \in {"Failed", "TimedOut"}

\* The run ended with a front leg that did not confirm.
Abandoned(r) ==
  /\ r.pc = "done"
  /\ r.status["front"] \in {"Failed", "TimedOut"}

\* What executeSandwichAttack logs when the run ends: "Sandwich attack
\* executed", or "Error executing sandwich attack:" with the message of the
\* error, which names the failed step and not the leg.
Recorded(r) ==
  <<r.outcome, IF r.outcome = "error" THEN r.failedAt[r.leg] ELSE "none">>

\* C11: the record of a run that ended in partial exposure differs from the
\* record of every run that was abandoned.
C11_PartialExposureDistinguished ==
  \A h1, h2 \in Handlers :
    (PartialExposure(handlers[h1]) /\ Abandoned(handlers[h2]))
      => Recorded(handlers[h1]) # Recorded(handlers[h2])

\* The run met a failure while resolving, evaluating or submitting.
RunFailed(r) == r.outcome \in {"resolveError", "invalid", "error"}

\* C12: after a run of the callback has failed, the subscription is still
\* active and the next notification can still be delivered and processed.
C12_FailureStaysInIteration ==
  \A h \in Handlers :
    RunFailed(handlers[h])
      => /\ subscribed
         /\ \A k \in Handlers :
              (At(k, "idle") /\ \A j \in Handlers : j < k => ~At(j, "idle"))
                => ENABLED onLogs(k)

C12_Witness ==
  /\ handlers[1].outcome = "error"
  /\ handlers[1].failedAt["back"] = "send"
  /\ handlers[2].pc = "getParsedTransaction"

\* C13: the subscription is active only with a non-empty trend list, and
\* scanMempool opens it exactly when the fetched list has an element.
C13_SubscribedOnlyWithTrends ==
  /\ subscribed => Len(trendingTokens) > 0
  /\ mainPc = "returned" => (subscribed <=> Len(trendingTokens) > 0)

C13_Witness ==
  mainPc = "returned" /\ trendFetches = 1 /\ Len(trendingTokens) = 0 /\ ~subscribed

\* C14: a trend fetch that fails leaves the trend list unchanged and does not
\* end the run of main that leads to the event loop.
C14_RefreshFailureKeepsLoop ==
  [][getTrendingTokensRejected
       => (trendingTokens' = trendingTokens /\ mainPc' # "failed")]_vars

\* C15: a notification whose lookup returned null or threw has an error
\* logged, was looked up exactly once and was neither evaluated nor submitted.
C15_ResolutionFailureLoggedAndDropped ==
  \A h \in Handlers :
    handlers[h].resolved \in {"null", "threw"}
      => /\ handlers[h].errors >= 1
         /\ handlers[h].lookups = 1
         /\ handlers[h].evaluations = 0
         /\ NoLegIO(handlers[h])

\* C16: every leg makes each step at most once and in the order build,
\* simulate, fetch blockhash, sign, send-raw, confirm; no step follows a failed
\* earlier step; the blockhash signed into a leg is the one that leg of that
\* run fetched.
C16_LegStepOrder ==
  \A h \in Handlers : \A l \in Legs :
    LET c == handlers[h].calls[l]
        f == handlers[h].failedAt[l] IN
    /\ c.build <= 1
    /\ c.simulate <= c.build
    /\ c.blockhash <= c.simulate
    /\ c.sign <= c.blockhash
    /\ c.send <= c.sign
    /\ c.confirm <= c.send
    /\ f = "build" => c.simulate = 0
    /\ (f = "simulate" \/ handlers[h].simErr[l]) => c.blockhash = 0
    /\ f = "blockhash" => c.sign = 0
    /\ f = "send" => c.confirm = 0
    /\ handlers[h].signedHash[l] = IF c.sign > 0 THEN <<h, l>> ELSE <<0, "none">>

C16_Witness ==
  \E h \in Handlers :
    /\ handlers[h].calls["back"].confirm = 1
    /\ handlers[h].signedHash["back"] = <<h, "back">>
    /\ handlers[h].signedHash["front"] = <<h, "front">>

\* C17: a resolved transaction without an account list is logged as an error
\* and skipped: the run has ended without a builder call, a simulation or a
\* broadcast.
C17_MalformedBodySkipped ==
  \A h \in Handlers :
    (handlers[h].resolved = "found" /\ ~handlers[h].transaction.hasAccountKeys)
      => /\ handlers[h].pc = "done"
         /\ handlers[h].outcome = "invalid"
         /\ handlers[h].errors = 1
         /\ NoLegIO(handlers[h])

C17_Witness ==
  \E h \in Handlers :
    /\ handlers[h].signature = "sigBad"
    /\ handlers[h].resolved = "found"
    /\ handlers[h].evaluations = 1

\* C18: every leg that has started eventually is Confirmed, Failed or
\* TimedOut, and every run that has started a pipeline eventually ends.
C18_PipelineTerminates ==
  \A h \in FairHandlers :
    /\ (handlers[h].leg # "none") ~> (handlers[h].pc = "done")
    /\ \A l \in Legs :
         (handlers[h].status[l] # "NotStarted")
           ~> (handlers[h].status[l] \in Terminal)

C18_Witness ==
  \E h \in FairHandlers :
    /\ handlers[h].pc = "done"
    /\ handlers[h].status["front"] = "Confirmed"
    /\ handlers[h].status["back"] = "TimedOut"

\* C19: a run that logged "Sandwich attack executed" has both legs Confirmed.
C19_ExecutedMeansBothConfirmed ==
  \A h \in Handlers :
    handlers[h].outcome = "executed"
      => /\ handlers[h].status["front"] = "Confirmed"
         /\ handlers[h].status["back"] = "Confirmed"

\* C20: once the subscription is open no step changes the trend list or
\* fetches it again.
C20_TrendListFrozen ==
  [][subscribed
       => (trendingTokens' = trendingTokens /\ trendFetches' = trendFetches)]_vars

C20_Witness ==
  /\ subscribed
  /\ Len(trendingTokens) = 2
  /\ \E h \in Handlers : handlers[h].target["back"] = trendingTokens[1]

====
